---- MODULE Spec2Model ----
(***************************************************************************)
(* Model of the capacity / utilization engine of backend/tools/database.py *)
(* (get_service_utilization, get_panel_utilization, check_service_capacity *)
(* and their helpers) over the rows of the projects, panels and circuits   *)
(* tables of one project, of calculate_voltage_drop and the change-impact  *)
(* request of backend/agents/change_impact.py, of check_panel_compliance   *)
(* and check_voltage_drop_compliance of backend/agents/predictive.py, and  *)
(* of the trigger, approve and reject endpoints of                         *)
(* backend/routes/agent_actions.py.                                        *)
(*                                                                         *)
(* Numbers.  The Python code computes with floats.  Every quantity is      *)
(* modelled as an exact rational <<numerator, denominator>> in lowest      *)
(* terms with a positive denominator; the literals 1.732 and 0.8 are the   *)
(* rationals 433/250 and 4/5.  round(x, 1) and the "{x:.0f}" format are    *)
(* modelled as round-half-to-even on the exact value; the inputs of the    *)
(* model give no value exactly halfway between two tenths, where the       *)
(* binary expansion of the float would decide instead.                     *)
(*                                                                         *)
(* Rows.  A table row (a Python dict) is a record; a key the dict does not *)
(* hold is a field the record does not have, so dict.get(key, default) is  *)
(* Get(row, key, default).  An Optional value is a sequence of length 0    *)
(* (None) or 1.                                                            *)
(*                                                                         *)
(* State.  projects, panels, circuits and feeders are the tables of the    *)
(* store and agent_actions the table of queued agent actions; now is the   *)
(* clock, in hours; last is the latest call of a function or endpoint with *)
(* what it returned; run is the position and the locals of one             *)
(* change-impact request.                                                  *)
(***************************************************************************)
EXTENDS Integers, Sequences, FiniteSets, TLC

VARIABLES projects, panels, circuits, feeders, agent_actions, now, last, run

vars == <<projects, panels, circuits, feeders, agent_actions, now, last, run>>

(***************************************************************************)
(* Bounds of the model.                                                    *)
(***************************************************************************)
MaxPanels == 2
MaxCircuits == 2
MaxRequired == 1300

(***************************************************************************)
(* Exact rational arithmetic standing for the float arithmetic.            *)
(***************************************************************************)
Abs(n) == IF n < 0 THEN -n ELSE n

RECURSIVE GCD(_, _)
GCD(a, b) == IF b = 0 THEN a ELSE GCD(b, a % b)

Rat(n, d) ==
    IF d = 1 THEN <<n, 1>>
    ELSE LET g == GCD(Abs(n), Abs(d))
             s == IF d < 0 THEN -1 ELSE 1
         IN  <<(s * n) \div g, (s * d) \div g>>

R(n) == <<n, 1>>

RAdd(x, y) == Rat(x[1] * y[2] + y[1] * x[2], x[2] * y[2])

RNeg(x) == <<-x[1], x[2]>>

RSub(x, y) == RAdd(x, RNeg(y))

RMul(x, y) ==
    LET a == Rat(x[1], y[2])
        b == Rat(y[1], x[2])
    IN  <<a[1] * b[1], a[2] * b[2]>>

RDiv(x, y) == RMul(x, Rat(y[2], y[1]))

RLe(x, y) == x[1] * y[2] <= y[1] * x[2]

RLt(x, y) == x[1] * y[2] < y[1] * x[2]

RAbs(x) == <<Abs(x[1]), x[2]>>

\* the integer nearest to x, ties to the even one
RoundHalfEven(x) ==
    LET f == x[1] \div x[2]
        r == 2 * (x[1] % x[2])
    IN  IF r < x[2] THEN f
        ELSE IF r > x[2] THEN f + 1
        ELSE IF f % 2 = 0 THEN f ELSE f + 1

\* round(x, 1)
Round1(x) == Rat(RoundHalfEven(<<10 * x[1], x[2]>>), 10)

\* round(x, 2)
Round2(x) == Rat(RoundHalfEven(<<100 * x[1], x[2]>>), 100)

\* "{x:.0f}"
Fmt0(x) == RoundHalfEven(x)

Sqrt3 == Rat(433, 250)

None == << >>

Some(x) == <<x>>

Get(row, key, default) == IF key \in DOMAIN row THEN row[key] ELSE default

(***************************************************************************)
(* The rows the store can hold for the project.  The functions only add up *)
(* and count the rows of a query result, so each table is listed in one    *)
(* order: panels by shape, circuits by panel and shape.  A panel's id is   *)
(* its position in the panels table.                                       *)
(***************************************************************************)
ProjectRows ==
    { [id |-> 1, service_size |-> 200, voltage |-> 240, phases |-> 1],
      [id |-> 1, service_size |-> 100, voltage |-> 208, phases |-> 3],
      [id |-> 1, service_size |-> 1200],
      [id |-> 1, service_size |-> 200, voltage |-> 0, phases |-> 1] }

PanelShapes ==
    << [bus_rating |-> 100, voltage |-> 240, phase |-> 1],
       [bus_rating |-> 100, voltage |-> 208, phase |-> 3],
       [voltage |-> 0] >>

CircuitShapes ==
    << [load_va |-> 18000],
       [load_va |-> 19200],
       [load_watts |-> 4800],
       [load_va |-> 20640, load_watts |-> 100, pole |-> 2] >>

\* proposed additional loads, in amps
AddAmps ==
    { R(0), R(28), R(40), R(48), R(160), Rat(4002, 25), R(1300) }

WithKey(row, key, val) ==
    [k \in DOMAIN row \cup {key} |-> IF k = key THEN val ELSE row[k]]

\* the nondecreasing sequences of at most n numbers of 1..m
SortedSeqs(m, n) ==
    UNION { { s \in [1..k -> 1..m] : \A i \in 1..(k - 1) : s[i] <= s[i + 1] } : k \in 0..n }

PanelTables ==
    { [i \in 1..Len(s) |-> WithKey(PanelShapes[s[i]], "id", i)] :
        s \in SortedSeqs(Len(PanelShapes), MaxPanels) }

CircuitRow(code) ==
    WithKey(CircuitShapes[((code - 1) % Len(CircuitShapes)) + 1],
            "panel_id", ((code - 1) \div Len(CircuitShapes)) + 1)

CircuitTables(nPanels) ==
    { [i \in 1..Len(s) |-> CircuitRow(s[i])] :
        s \in SortedSeqs(nPanels * Len(CircuitShapes), MaxCircuits) }

(***************************************************************************)
(* Queries                                                                 *)
(***************************************************************************)
\* variant: a missing row is replaced by an empty record and read with defaults
get_project_data_default(prj) == IF Len(prj) = 1 THEN Some(prj[1]) ELSE Some([id |-> 0])

\* the project row, or None when there is no row or the query raised
get_project_data(prj) == IF Len(prj) = 1 THEN Some(prj[1]) ELSE None

get_all_panels(pnl) == pnl

get_panel_circuits(cir, panel_id) ==
    SelectSeq(cir, LAMBDA c : c.panel_id = panel_id)

\* the load one circuit adds to the service total
ServiceCircuitLoad(c) == Get(c, "load_va", 0)

RECURSIVE SumServiceLoad(_)
SumServiceLoad(cs) ==
    IF Len(cs) = 0 THEN 0
    ELSE ServiceCircuitLoad(Head(cs)) + SumServiceLoad(Tail(cs))

calculate_total_panel_load(cir, panel_id) ==
    SumServiceLoad(get_panel_circuits(cir, panel_id))

RECURSIVE SumPanelLoads(_, _)
SumPanelLoads(pnl, cir) ==
    IF Len(pnl) = 0 THEN 0
    ELSE calculate_total_panel_load(cir, Head(pnl).id) + SumPanelLoads(Tail(pnl), cir)

CapacityVa(rating, voltage, phases) ==
    IF phases = 3 THEN RMul(R(rating * voltage), Sqrt3) ELSE R(rating * voltage)

UtilizationPercent(load_va, capacity_va) ==
    IF RLt(R(0), capacity_va)
    THEN RMul(RDiv(load_va, capacity_va), R(100))
    ELSE R(0)

get_service_utilization(prj, pnl, cir) ==
    LET project == get_project_data(prj) IN
    IF project = None THEN [error |-> "Project not found"]
    ELSE
      LET service_size == Get(project[1], "service_size", 200)
          voltage == Get(project[1], "voltage", 240)
          phases == Get(project[1], "phases", 1)
          total_load_va == SumPanelLoads(get_all_panels(pnl), cir)
          service_capacity_va == CapacityVa(service_size, voltage, phases)
      IN  [ service_size |-> service_size,
            voltage |-> voltage,
            phases |-> phases,
            service_capacity_va |-> service_capacity_va,
            total_load_va |-> total_load_va,
            utilization_percent |-> UtilizationPercent(R(total_load_va), service_capacity_va) ]

\* variant: only a voltage of 0 is kept out of the division
LoadAmps_nonzero(load_va, voltage) ==
    IF voltage # 0 THEN Rat(load_va, voltage) ELSE R(0)

\* current_load_amps: load over voltage, 0 when the voltage is not positive
LoadAmps(load_va, voltage) ==
    IF voltage > 0 THEN Rat(load_va, voltage) ELSE R(0)

(***************************************************************************)
(* get_panel_utilization                                                   *)
(***************************************************************************)
\* the load one circuit adds to its panel's load
PanelCircuitLoad(c) == Get(c, "load_va", Get(c, "load_watts", 0))

RECURSIVE SumPanelCircuitLoad(_)
SumPanelCircuitLoad(cs) ==
    IF Len(cs) = 0 THEN 0
    ELSE PanelCircuitLoad(Head(cs)) + SumPanelCircuitLoad(Tail(cs))

RECURSIVE SumPoles(_)
SumPoles(cs) ==
    IF Len(cs) = 0 THEN 0
    ELSE Get(Head(cs), "pole", 1) + SumPoles(Tail(cs))

\* variant: the comparison is made on the percentage rounded for the report
CanAddLoad_rounded(utilization_percent) == RLt(Round1(utilization_percent), R(80))

CanAddLoad(utilization_percent) == RLt(utilization_percent, R(80))

\* variant: 80 itself still counts as OK
PanelStatus_le(utilization_percent) ==
    IF RLe(utilization_percent, R(80)) THEN "OK"
    ELSE IF RLt(utilization_percent, R(100)) THEN "WARNING"
    ELSE "OVERLOADED"

PanelStatus(utilization_percent) ==
    IF RLt(utilization_percent, R(80)) THEN "OK"
    ELSE IF RLt(utilization_percent, R(100)) THEN "WARNING"
    ELSE "OVERLOADED"

get_panel_utilization(pnl, cir, panel_id) ==
    LET rows == SelectSeq(pnl, LAMBDA p : p.id = panel_id) IN
    IF Len(rows) # 1 THEN [error |-> "APIError"]
    ELSE
      LET panel == rows[1]
          cs == get_panel_circuits(cir, panel_id)
          bus_rating == Get(panel, "bus_rating", 200)
          voltage == Get(panel, "voltage", 240)
          phases == Get(panel, "phase", 1)
          max_spaces == Get(panel, "spaces", 42)
          total_load_va == SumPanelCircuitLoad(cs)
          total_poles_used == SumPoles(cs)
          capacity_va == CapacityVa(bus_rating, voltage, phases)
          capacity_amps == bus_rating
          current_load_amps == LoadAmps(total_load_va, voltage)
          available_amps == RSub(R(capacity_amps), current_load_amps)
          utilization_percent == UtilizationPercent(R(total_load_va), capacity_va)
      IN  [ panel_id |-> panel_id,
            panel_name |-> Get(panel, "name", "Unknown"),
            bus_rating_amps |-> bus_rating,
            voltage |-> voltage,
            phases |-> phases,
            capacity_va |-> capacity_va,
            current_load_va |-> total_load_va,
            current_load_amps |-> Round1(current_load_amps),
            available_amps |-> Round1(available_amps),
            utilization_percent |-> Round1(utilization_percent),
            total_spaces |-> max_spaces,
            spaces_used |-> total_poles_used,
            spaces_available |-> max_spaces - total_poles_used,
            circuit_count |-> Len(cs),
            can_add_load |-> CanAddLoad(utilization_percent),
            status |-> PanelStatus(utilization_percent) ]

(***************************************************************************)
(* check_service_capacity                                                  *)
(***************************************************************************)
standard_sizes == <<100, 125, 150, 200, 225, 320, 400, 600, 800, 1000, 1200>>

\* variant: the 80% rule is not applied to the required amperage
RequiredService_noDerate(required_amps) == required_amps

\* variant: the 80% rule applied the wrong way round
RequiredService_times(required_amps) == RMul(required_amps, Rat(4, 5))

RequiredService(required_amps) == RDiv(required_amps, Rat(4, 5))

RECURSIVE FirstSizeFrom(_, _)
FirstSizeFrom(i, required_service) ==
    IF i > Len(standard_sizes) THEN 1200
    ELSE IF RLe(required_service, R(standard_sizes[i])) THEN standard_sizes[i]
    ELSE FirstSizeFrom(i + 1, required_service)

\* variant: no fall-through return after the loop
RecommendedSize_noFallback(required_amps) ==
    LET size == FirstSizeFrom(1, RequiredService(required_amps)) IN
    IF RLe(RequiredService(required_amps), R(size)) THEN size ELSE 0

_get_recommended_service_size(required_amps) ==
    FirstSizeFrom(1, RequiredService(required_amps))

\* variant: the caution tier starts at 60 instead of above 60
Verdict_ge60(utilization, remaining_amps) ==
    IF RLt(R(100), utilization)
    THEN [prefix |-> "REJECT", overloaded_by |-> Fmt0(RAbs(remaining_amps))]
    ELSE IF RLt(R(80), utilization)
    THEN [prefix |-> "WARNING", utilization |-> Fmt0(utilization),
          margin |-> Fmt0(remaining_amps)]
    ELSE IF RLe(R(60), utilization)
    THEN [prefix |-> "APPROVE WITH CAUTION", utilization |-> Fmt0(utilization),
          remaining |-> Fmt0(remaining_amps)]
    ELSE [prefix |-> "APPROVE", remaining |-> Fmt0(remaining_amps)]

\* the verdict string: its leading words and the numbers it embeds
_get_capacity_verdict(utilization, remaining_amps) ==
    IF RLt(R(100), utilization)
    THEN [prefix |-> "REJECT", overloaded_by |-> Fmt0(RAbs(remaining_amps))]
    ELSE IF RLt(R(80), utilization)
    THEN [prefix |-> "WARNING", utilization |-> Fmt0(utilization),
          margin |-> Fmt0(remaining_amps)]
    ELSE IF RLt(R(60), utilization)
    THEN [prefix |-> "APPROVE WITH CAUTION", utilization |-> Fmt0(utilization),
          remaining |-> Fmt0(remaining_amps)]
    ELSE [prefix |-> "APPROVE", remaining |-> Fmt0(remaining_amps)]

\* str.startswith on a verdict
StartsWith(verdict, word) ==
    \/ verdict.prefix = word
    \/ word = "APPROVE" /\ verdict.prefix = "APPROVE WITH CAUTION"

\* variant: the added load is subtracted
NewTotalVa_sub(current_load_va, additional_load_va) ==
    RSub(R(current_load_va), additional_load_va)

NewTotalVa(current_load_va, additional_load_va) ==
    RAdd(R(current_load_va), additional_load_va)

\* variant: the present load is left out of the new total
NewTotalAmps_onlyAdded(current_load_amps, additional_load_amps) ==
    additional_load_amps

NewTotalAmps(current_load_amps, additional_load_amps) ==
    RAdd(current_load_amps, additional_load_amps)

\* variant: the capacity is recomputed as single-phase
CheckCapacityVa_single(service_util, service_size, voltage) ==
    R(service_size * voltage)

CheckCapacityVa(service_util, service_size, voltage) ==
    Get(service_util, "service_capacity_va", R(service_size * voltage))

\* variant: 80 itself is not admitted
CanProceed_strict(new_utilization) == RLt(new_utilization, R(80))

CanProceed(new_utilization) == RLe(new_utilization, R(80))

RequiresUpgrade(new_utilization) == RLt(R(100), new_utilization)

\* variant: exactly 100 is no longer a warning
Warning_below100(new_utilization) ==
    RLt(R(80), new_utilization) /\ RLt(new_utilization, R(100))

Warning(new_utilization) ==
    RLt(R(80), new_utilization) /\ RLe(new_utilization, R(100))

\* variant: a size is recommended whether or not an upgrade is required
RecommendedIfUpgrade_always(requires_upgrade, new_total_amps) ==
    Some(_get_recommended_service_size(new_total_amps))

\* _get_recommended_service_size(new_total_amps) if requires_upgrade else None
RecommendedIfUpgrade(requires_upgrade, new_total_amps) ==
    IF requires_upgrade
    THEN Some(_get_recommended_service_size(new_total_amps))
    ELSE None

check_service_capacity(prj, pnl, cir, additional_load_amps) ==
    LET service_util == get_service_utilization(prj, pnl, cir) IN
    IF "error" \in DOMAIN service_util
    THEN [error |-> service_util.error, can_proceed |-> FALSE]
    ELSE
      LET service_size == Get(service_util, "service_size", 200)
          voltage == Get(service_util, "voltage", 240)
          current_load_va == Get(service_util, "total_load_va", 0)
          current_load_amps == LoadAmps(current_load_va, voltage)
          additional_load_va == RMul(additional_load_amps, R(voltage))
          new_total_va == NewTotalVa(current_load_va, additional_load_va)
          new_total_amps == NewTotalAmps(current_load_amps, additional_load_amps)
          capacity_va == CheckCapacityVa(service_util, service_size, voltage)
          new_utilization == UtilizationPercent(new_total_va, capacity_va)
          available_amps == RSub(R(service_size), current_load_amps)
          remaining_after_change == RSub(R(service_size), new_total_amps)
          can_proceed == CanProceed(new_utilization)
          requires_upgrade == RequiresUpgrade(new_utilization)
          warning == Warning(new_utilization)
      IN  [ can_proceed |-> can_proceed,
            requires_service_upgrade |-> requires_upgrade,
            warning |-> warning,
            service_size_amps |-> service_size,
            current_load_amps |-> Round1(current_load_amps),
            proposed_additional_amps |-> additional_load_amps,
            new_total_amps |-> Round1(new_total_amps),
            available_before_change_amps |-> Round1(available_amps),
            remaining_after_change_amps |-> Round1(remaining_after_change),
            current_utilization_percent |->
                Round1(Get(service_util, "utilization_percent", R(0))),
            new_utilization_percent |-> Round1(new_utilization),
            recommended_service_size |->
                RecommendedIfUpgrade(requires_upgrade, new_total_amps),
            verdict |-> _get_capacity_verdict(new_utilization, remaining_after_change) ]

(***************************************************************************)
(* The state machine.  The store holds the rows of one project.  Each      *)
(* action is one call of a function on the store: it records the call, its *)
(* arguments and what it returns in last.  None of these functions writes  *)
(* to the store, so a call made after another returns what it returns from *)
(* the initial state; the calls are therefore taken from the initial state *)
(* only, which leaves the reachable states unchanged.                      *)
(***************************************************************************)
Init ==
    /\ projects \in {<< >>} \cup { <<j>> : j \in ProjectRows }
    /\ panels \in PanelTables
    /\ circuits \in CircuitTables(Len(panels))
    /\ feeders = << >>
    /\ last = [op |-> "none"]
    /\ run = [pc |-> "idle"]
    /\ agent_actions = << >>
    /\ now = 0

GetServiceUtilization ==
    /\ last.op = "none"
    /\ last' = [op |-> "get_service_utilization",
                result |-> get_service_utilization(projects, panels, circuits)]
    /\ UNCHANGED <<projects, panels, circuits, feeders, agent_actions, now, run>>

GetPanelUtilization ==
    /\ last.op = "none"
    /\ \E panel_id \in 1..Len(panels) :
         last' = [op |-> "get_panel_utilization",
                  panel_id |-> panel_id,
                  result |-> get_panel_utilization(panels, circuits, panel_id)]
    /\ UNCHANGED <<projects, panels, circuits, feeders, agent_actions, now, run>>

CheckServiceCapacity ==
    /\ last.op = "none"
    /\ \E additional_load_amps \in AddAmps :
         last' = [op |-> "check_service_capacity",
                  additional_load_amps |-> additional_load_amps,
                  result |-> check_service_capacity(projects, panels, circuits,
                                                    additional_load_amps)]
    /\ UNCHANGED <<projects, panels, circuits, feeders, agent_actions, now, run>>

Next ==
    \/ GetServiceUtilization
    \/ GetPanelUtilization
    \/ CheckServiceCapacity

Spec == Init /\ [][Next]_vars

(***************************************************************************)
(* The same calls on stores whose project and panel rows have a voltage    *)
(* or a rating that is not positive.                                       *)
(***************************************************************************)
InvalidProjectRows ==
    { [id |-> 1, service_size |-> 200, voltage |-> 0, phases |-> 1],
      [id |-> 1, service_size |-> 100, voltage |-> -208, phases |-> 3],
      [id |-> 1, service_size |-> 0] }

InvalidPanelShapes ==
    << [voltage |-> 0],
       [bus_rating |-> 100, voltage |-> -240, phase |-> 3],
       [bus_rating |-> 0, voltage |-> 240, phase |-> 1] >>

InvalidPanelTables ==
    { [i \in 1..Len(s) |-> WithKey(InvalidPanelShapes[s[i]], "id", i)] :
        s \in SortedSeqs(Len(InvalidPanelShapes), MaxPanels) }

InitInvalid ==
    /\ projects \in { <<j>> : j \in InvalidProjectRows }
    /\ panels \in InvalidPanelTables
    /\ circuits \in CircuitTables(Len(panels))
    /\ feeders = << >>
    /\ last = [op |-> "none"]
    /\ run = [pc |-> "idle"]
    /\ agent_actions = << >>
    /\ now = 0

SpecInvalid == InitInvalid /\ [][Next]_vars

(***************************************************************************)
(* The same calls on stores whose loads lie within 0.05 of a percent of    *)
(* the 80% and 100% thresholds of a 100 A / 240 V panel and of a           *)
(* 200 A / 240 V service, so that the percentage reported with one decimal *)
(* falls on the other side of the threshold than the computed one.         *)
(***************************************************************************)
RoundingCircuitShapes ==
    << [load_va |-> 19190], [load_va |-> 23990], [load_va |-> 24010] >>

RoundingPanelTables ==
    { [i \in 1..k |-> WithKey(PanelShapes[1], "id", i)] : k \in 1..MaxPanels }

RoundingCircuitRow(code) ==
    WithKey(RoundingCircuitShapes[((code - 1) % Len(RoundingCircuitShapes)) + 1],
            "panel_id", ((code - 1) \div Len(RoundingCircuitShapes)) + 1)

RoundingCircuitTables(nPanels) ==
    { [i \in 1..Len(s) |-> RoundingCircuitRow(s[i])] :
        s \in SortedSeqs(nPanels * Len(RoundingCircuitShapes), MaxCircuits) }

InitRounding ==
    /\ projects = << [id |-> 1, service_size |-> 200, voltage |-> 240, phases |-> 1] >>
    /\ panels \in RoundingPanelTables
    /\ circuits \in RoundingCircuitTables(Len(panels))
    /\ feeders = << >>
    /\ last = [op |-> "none"]
    /\ run = [pc |-> "idle"]
    /\ agent_actions = << >>
    /\ now = 0

SpecRounding == InitRounding /\ [][Next]_vars

(***************************************************************************)
(* The same calls on single-phase and three-phase services of every size   *)
(* of the standard ladder.                                                 *)
(***************************************************************************)
LadderProjectRows ==
    { [id |-> 1, service_size |-> standard_sizes[i], voltage |-> vp[1], phases |-> vp[2]] :
        i \in 1..Len(standard_sizes), vp \in { <<240, 1>>, <<208, 3>> } }

LadderCircuitShapes == << [load_va |-> 10000], [load_va |-> 20000] >>

LadderCircuitTables ==
    { [i \in 1..Len(s) |-> WithKey(LadderCircuitShapes[s[i]], "panel_id", 1)] :
        s \in SortedSeqs(Len(LadderCircuitShapes), MaxCircuits) }

InitLadder ==
    /\ projects \in { <<j>> : j \in LadderProjectRows }
    /\ panels = << WithKey(PanelShapes[1], "id", 1) >>
    /\ circuits \in LadderCircuitTables
    /\ feeders = << >>
    /\ last = [op |-> "none"]
    /\ run = [pc |-> "idle"]
    /\ agent_actions = << >>
    /\ now = 0

SpecLadder == InitLadder /\ [][Next]_vars

(***************************************************************************)
(* _get_recommended_service_size applied on its own to every amperage of   *)
(* RequiredAmps (whole and half amps).                                     *)
(***************************************************************************)
RequiredAmps == { Rat(k, 2) : k \in 0..(2 * MaxRequired) }

InitSize ==
    /\ projects = << >>
    /\ panels = << >>
    /\ circuits = << >>
    /\ feeders = << >>
    /\ last = [op |-> "none"]
    /\ run = [pc |-> "idle"]
    /\ agent_actions = << >>
    /\ now = 0

RecommendedServiceSize ==
    /\ last.op = "none"
    /\ \E required_amps \in RequiredAmps :
         last' = [op |-> "_get_recommended_service_size",
                  required_amps |-> required_amps,
                  result |-> _get_recommended_service_size(required_amps)]
    /\ UNCHANGED <<projects, panels, circuits, feeders, agent_actions, now, run>>

NextSize == RecommendedServiceSize

SpecSize == InitSize /\ [][NextSize]_vars

(***************************************************************************)
(* calculate_voltage_drop (change_impact.py).  The function has no         *)
(* exception handler: what it returns is recorded as [value |-> x], and a  *)
(* division by a zero voltage as [raised |-> "ZeroDivisionError"].         *)
(***************************************************************************)
conductor_cmil ==
    ( "#14" :> 4110 @@ "#12" :> 6530 @@ "#10" :> 10380 @@ "#8" :> 16510 @@
      "#6" :> 26240 @@ "#4" :> 41740 @@ "#3" :> 52620 @@ "#2" :> 66360 @@
      "#1" :> 83690 @@ "#1/0" :> 105600 @@ "#2/0" :> 133100 @@
      "#3/0" :> 167800 @@ "#4/0" :> 211600 )

\* variant: an unknown designator is given the smallest area of the table
CircularMils_defaultSmallest(conductor_size) ==
    IF conductor_size \in DOMAIN conductor_cmil
    THEN conductor_cmil[conductor_size]
    ELSE 4110

\* conductor_cmil.get(conductor_size, 105600)
CircularMils(conductor_size) ==
    IF conductor_size \in DOMAIN conductor_cmil
    THEN conductor_cmil[conductor_size]
    ELSE 105600

\* K = 12.9, copper
K == Rat(129, 10)

VdropVolts(load_amps, length_feet, cmil) ==
    RDiv(RMul(RMul(K, R(load_amps)), R(length_feet)), R(cmil))

\* variant: the ratio is not scaled to a percentage
VdropPercent_ratio(vdrop_volts, voltage) ==
    RDiv(vdrop_volts, R(voltage))

\* (vdrop_volts / voltage) * 100, for a voltage other than 0
VdropPercent(vdrop_volts, voltage) ==
    RMul(RDiv(vdrop_volts, R(voltage)), R(100))

calculate_voltage_drop(conductor_size, length_feet, load_amps, voltage) ==
    LET cmil == CircularMils(conductor_size)
        vdrop_volts == VdropVolts(load_amps, length_feet, cmil)
    IN  IF voltage = 0
        THEN [raised |-> "ZeroDivisionError"]
        ELSE [value |-> Round2(VdropPercent(vdrop_volts, voltage))]

\* the arguments the tool is called with
VdropSizes == DOMAIN conductor_cmil \cup {"#weird", "2/0"}

VdropLengths == {0, 50, 100, 250}

VdropLoads == {0, 16, 40, 100}

VdropVoltages == {-240, 0, 120, 208, 240, 480}

InitVdrop ==
    /\ projects = << >>
    /\ panels = << >>
    /\ circuits = << >>
    /\ feeders = << >>
    /\ last = [op |-> "none"]
    /\ run = [pc |-> "idle"]
    /\ agent_actions = << >>
    /\ now = 0

CalculateVoltageDrop ==
    /\ last.op = "none"
    /\ \E conductor_size \in VdropSizes, length_feet \in VdropLengths,
          load_amps \in VdropLoads, voltage \in VdropVoltages :
         last' = [op |-> "calculate_voltage_drop",
                  conductor_size |-> conductor_size,
                  length_feet |-> length_feet,
                  load_amps |-> load_amps,
                  voltage |-> voltage,
                  result |-> calculate_voltage_drop(conductor_size, length_feet,
                                                    load_amps, voltage)]
    /\ UNCHANGED <<projects, panels, circuits, feeders, agent_actions, now, run>>

NextVdrop == CalculateVoltageDrop

SpecVdrop == InitVdrop /\ [][NextVdrop]_vars

(***************************************************************************)
(* check_voltage_drop_compliance (predictive.py) over the feeders table.   *)
(***************************************************************************)
MaxFeeders == 2

FeederShapes ==
    << [id |-> 0],
       [name |-> "F1", voltage_drop_percent |-> R(3)],
       [name |-> "F2", voltage_drop_percent |-> Rat(301, 100)],
       [name |-> "F3", voltage_drop_percent |-> Rat(21, 5)],
       [name |-> "F4", voltage_drop_percent |-> R(5)],
       [name |-> "F5", voltage_drop_percent |-> Rat(51, 10)],
       [voltage_drop_percent |-> R(6)] >>

FeederTables ==
    UNION { [1..k -> { FeederShapes[i] : i \in 1..Len(FeederShapes) }] :
              k \in 0..MaxFeeders }

get_all_feeders(fdr) == fdr

\* variant: a drop of exactly 5 is already High
Severity_ge(vdrop) == IF RLe(R(5), vdrop) THEN "High" ELSE "Medium"

Severity(vdrop) == IF RLt(R(5), vdrop) THEN "High" ELSE "Medium"

\* the feeder limit: vdrop > 3
OverFeederLimit(vdrop) == RLt(R(3), vdrop)

Violation(feeder) ==
    LET vdrop == Get(feeder, "voltage_drop_percent", R(0)) IN
    [ feeder |-> Get(feeder, "name", "Unknown"),
      voltage_drop |-> vdrop,
      limit |-> R(3),
      article |-> "NEC 210.19(A) / 215.2(A)(1)",
      severity |-> Severity(vdrop) ]

RECURSIVE Violations(_)
Violations(fs) ==
    IF Len(fs) = 0 THEN << >>
    ELSE LET vdrop == Get(Head(fs), "voltage_drop_percent", R(0)) IN
         IF OverFeederLimit(vdrop)
         THEN <<Violation(Head(fs))>> \o Violations(Tail(fs))
         ELSE Violations(Tail(fs))

check_voltage_drop_compliance(fdr) == Violations(get_all_feeders(fdr))

InitFeeders ==
    /\ projects = << >>
    /\ panels = << >>
    /\ circuits = << >>
    /\ feeders \in FeederTables
    /\ last = [op |-> "none"]
    /\ run = [pc |-> "idle"]
    /\ agent_actions = << >>
    /\ now = 0

CheckVoltageDropCompliance ==
    /\ last.op = "none"
    /\ last' = [op |-> "check_voltage_drop_compliance",
                result |-> check_voltage_drop_compliance(feeders)]
    /\ UNCHANGED <<projects, panels, circuits, feeders, agent_actions, now, run>>

NextFeeders == CheckVoltageDropCompliance

SpecFeeders == InitFeeders /\ [][NextFeeders]_vars

(***************************************************************************)
(* The agent_actions table (routes/agent_actions.py).  A row is the record *)
(* of the columns the routes write; its id is its position in the table,   *)
(* rows are never deleted.  A timestamp is a whole number of hours.        *)
(***************************************************************************)
Users == {"u1", "u2"}

MaxActions == 2

MaxClock == 2

\* what supabase.table('agent_actions').insert(data).execute() can do: store
\* the row and return it, return no data, or raise
InsertOutcomes == {"stored", "empty", "raises"}

\* expires_at = datetime.utcnow() + timedelta(hours=72)
ExpiresAt_created(utcnow) == utcnow

ExpiresAt(utcnow) == utcnow + 72

\* the row the insert of queue_agent_action stores: the data of the call
\* and the columns the table fills in
ActionRow(table, utcnow, user_id, action_type, agent_name, priority, confidence) ==
    [ id |-> Len(table) + 1,
      user_id |-> user_id,
      action_type |-> action_type,
      agent_name |-> agent_name,
      priority |-> priority,
      status |-> "pending",
      confidence_score |-> confidence,
      expires_at |-> Some(ExpiresAt(utcnow)),
      created_at |-> utcnow,
      reviewed_at |-> None,
      user_notes |-> None,
      rejection_reason |-> None ]

\* queue_agent_action: the table after the call, with what the call returns
\* or raises
queue_agent_action(table, utcnow, user_id, action_type, agent_name, priority, confidence, insert) ==
    LET row == ActionRow(table, utcnow, user_id, action_type, agent_name,
                         priority, confidence)
    IN  CASE insert = "stored" ->
               [ table |-> Append(table, row), returned |-> row ]
          [] insert = "empty" ->
               [ table |-> table,
                 raised |-> [ exception |-> "HTTPException",
                              status_code |-> 500,
                              detail |-> "Failed to queue agent action" ] ]
          [] insert = "raises" ->
               [ table |-> table, raised |-> [ exception |-> "APIError" ] ]

(***************************************************************************)
(* One change-impact request: trigger_change_impact_analysis               *)
(* (agent_actions.py) calls analyze_change_impact (change_impact.py),      *)
(* which runs the agent; the agent builds its context with                 *)
(* add_project_context and the language model produces a ChangeImpact.     *)
(* Every await that reads the store is a step of its own, and other        *)
(* clients of the store may write the circuits table between two steps.    *)
(* The language model is free to answer either way.                        *)
(***************************************************************************)
MaxWrites == 1

ProposedLoadLists ==
    { << >>,
      << [type |-> "ev_charger", amps |-> 48, quantity |-> 1] >>,
      << [type |-> "ev_charger", amps |-> 50, quantity |-> 3] >>,
      << [type |-> "range", amps |-> 28, quantity |-> 1],
         [type |-> "dryer", amps |-> 20, quantity |-> 1] >> }

\* sum(load.get('amps', 0) * load.get('quantity', 1) for load in proposed_loads)
RECURSIVE TotalAdditionalAmps(_)
TotalAdditionalAmps(proposed_loads) ==
    IF Len(proposed_loads) = 0 THEN 0
    ELSE Get(Head(proposed_loads), "amps", 0) * Get(Head(proposed_loads), "quantity", 1)
         + TotalAdditionalAmps(Tail(proposed_loads))

LargeLoad(c) ==
    [ description |-> Get(c, "description", "Unknown"),
      breaker_amps |-> Get(c, "breaker_amps", 0),
      load_va |-> Get(c, "load_va", Get(c, "load_watts", 0)),
      load_type |-> Get(c, "load_type", "Unknown"),
      panel_id |-> c.panel_id ]

\* x put into a list sorted by falling breaker_amps, after its equals
RECURSIVE InsertByBreaker(_, _)
InsertByBreaker(x, sorted) ==
    IF Len(sorted) = 0 THEN <<x>>
    ELSE IF x.breaker_amps > Head(sorted).breaker_amps THEN <<x>> \o sorted
    ELSE <<Head(sorted)>> \o InsertByBreaker(x, Tail(sorted))

RECURSIVE SortByBreaker(_)
SortByBreaker(ls) ==
    IF Len(ls) = 0 THEN << >>
    ELSE InsertByBreaker(ls[Len(ls)], SortByBreaker(SubSeq(ls, 1, Len(ls) - 1)))

get_large_loads(cir, min_amps) ==
    LET large == SelectSeq(cir, LAMBDA c : Get(c, "breaker_amps", 0) >= min_amps)
    IN  SortByBreaker([i \in 1..Len(large) |-> LargeLoad(large[i])])

\* the rows of the one panel of these requests
ImpactPanels == << WithKey(PanelShapes[1], "id", 1) >>

ImpactProjects == { << >>, << [id |-> 1, service_size |-> 200, voltage |-> 240, phases |-> 1] >> }

InitImpact ==
    /\ projects \in ImpactProjects
    /\ panels = ImpactPanels
    /\ circuits \in CircuitTables(Len(panels))
    /\ feeders = << >>
    /\ last = [op |-> "none"]
    /\ run = [pc |-> "idle"]
    /\ agent_actions = << >>
    /\ now = 0

\* analyze_change_impact up to the capacity pre-check
StartAnalysis ==
    /\ run.pc = "idle"
    /\ \E proposed_loads \in ProposedLoadLists :
         LET total_additional_amps == TotalAdditionalAmps(proposed_loads) IN
         run' = [ pc |-> "pre_checked",
                  writes |-> 0,
                  proposed_load_amps |-> total_additional_amps,
                  capacity_pre_check |->
                      check_service_capacity(projects, panels, circuits,
                                             R(total_additional_amps)) ]
    /\ UNCHANGED <<projects, panels, circuits, feeders, agent_actions, now, last>>

\* add_project_context: the project row and the service utilization
CtxServiceUtil ==
    /\ run.pc = "pre_checked"
    /\ LET project == get_project_data(projects) IN
       IF project = None
       THEN run' = [run EXCEPT !.pc = "prompted"] @@
                   [context |-> [text |-> "Project data unavailable."]]
       ELSE run' = [run EXCEPT !.pc = "ctx_util"] @@
                   [service_util |-> get_service_utilization(projects, panels, circuits)]
    /\ UNCHANGED <<projects, panels, circuits, feeders, agent_actions, now, last>>

\* add_project_context: the capacity check, the panels and the large loads
CtxCapacityCheck ==
    /\ run.pc = "ctx_util"
    /\ run' = [run EXCEPT !.pc = "prompted"] @@
              [context |->
                 [ service_util |-> run.service_util,
                   capacity_check |->
                       check_service_capacity(projects, panels, circuits,
                                              R(run.proposed_load_amps)),
                   panel_details |->
                       [i \in 1..Len(panels) |->
                           get_panel_utilization(panels, circuits, panels[i].id)],
                   large_loads |-> get_large_loads(circuits, 20) ]]
    /\ UNCHANGED <<projects, panels, circuits, feeders, agent_actions, now, last>>

\* the language model answers with a ChangeImpact
AgentRun ==
    /\ run.pc = "prompted"
    /\ \E can_accommodate \in BOOLEAN :
         run' = [run EXCEPT !.pc = "agent_done"] @@
                [output |-> [can_accommodate |-> can_accommodate]]
    /\ UNCHANGED <<projects, panels, circuits, feeders, agent_actions, now, last>>

\* the safety check and the return: ChangeImpact has no field approved, so
\* reading output.approved, which happens only when the pre-check requires
\* an upgrade, raises AttributeError
SafetyCheck ==
    /\ run.pc = "agent_done"
    /\ IF Get(run.capacity_pre_check, "requires_service_upgrade", FALSE)
       THEN run' = [run EXCEPT !.pc = "raised"] @@ [exception |-> "AttributeError"]
       ELSE run' = [run EXCEPT !.pc = "returned"] @@ [impact |-> run.output]
    /\ UNCHANGED <<projects, panels, circuits, feeders, agent_actions, now, last>>

\* the route queues the returned analysis (the insert is taken to succeed)
QueueAction ==
    /\ run.pc = "returned"
    /\ \E user \in Users :
         LET q == queue_agent_action(agent_actions, now, user, "suggest_change",
                     "change_impact",
                     IF ~run.impact.can_accommodate THEN 80 ELSE 60,
                     IF run.impact.can_accommodate THEN Rat(85, 100) ELSE Rat(90, 100),
                     "stored")
         IN  /\ agent_actions' = q.table
             /\ run' = [run EXCEPT !.pc = "queued"] @@
                       [queued |-> [action_data |-> run.impact] @@ q.returned]
    /\ UNCHANGED <<projects, panels, circuits, feeders, now, last>>

\* the route answers an exception with HTTP 500
RespondError ==
    /\ run.pc = "raised"
    /\ run' = [run EXCEPT !.pc = "failed"] @@ [status_code |-> 500]
    /\ UNCHANGED <<projects, panels, circuits, feeders, agent_actions, now, last>>

InFlight == run.pc \in {"pre_checked", "ctx_util", "prompted", "agent_done"}

\* another client of the store adds a circuit to the panel
InsertCircuit ==
    /\ InFlight
    /\ run.writes < MaxWrites
    /\ Len(circuits) < MaxCircuits
    /\ \E code \in 1..Len(CircuitShapes) :
         circuits' = Append(circuits, CircuitRow(code))
    /\ run' = [run EXCEPT !.writes = @ + 1]
    /\ UNCHANGED <<projects, panels, feeders, agent_actions, now, last>>

\* another client of the store removes a circuit
DeleteCircuit ==
    /\ InFlight
    /\ run.writes < MaxWrites
    /\ \E i \in 1..Len(circuits) :
         circuits' = SubSeq(circuits, 1, i - 1) \o SubSeq(circuits, i + 1, Len(circuits))
    /\ run' = [run EXCEPT !.writes = @ + 1]
    /\ UNCHANGED <<projects, panels, feeders, agent_actions, now, last>>

NextImpact ==
    \/ StartAnalysis
    \/ CtxServiceUtil
    \/ CtxCapacityCheck
    \/ AgentRun
    \/ SafetyCheck
    \/ QueueAction
    \/ RespondError
    \/ InsertCircuit
    \/ DeleteCircuit

SpecImpact == InitImpact /\ [][NextImpact]_vars

(***************************************************************************)
(* check_panel_compliance (predictive.py), next to get_panel_utilization,  *)
(* on named panels.  A three-phase panel row holds its phase count under   *)
(* the key phase, under the key phases, or under both.                     *)
(***************************************************************************)
CompliancePanelShapes ==
    << [bus_rating |-> 100, voltage |-> 240, phase |-> 1],
       [bus_rating |-> 100, voltage |-> 208, phase |-> 3],
       [bus_rating |-> 100, voltage |-> 208, phases |-> 3],
       [bus_rating |-> 100, voltage |-> 208, phase |-> 3, phases |-> 3] >>

PanelNames == << "MDP", "Sub A", "Garage" >>

\* str.lower on the names of the model
LowerCase ==
    ( "MDP" :> "mdp" @@ "mdp" :> "mdp" @@ "Sub A" :> "sub a" @@ "sub a" :> "sub a"
      @@ "Garage" :> "garage" @@ "garage" :> "garage" @@ "" :> "" )

Lower(str) == LowerCase[str]

CompliancePanelTables ==
    { [i \in 1..Len(s) |->
          WithKey(WithKey(CompliancePanelShapes[s[i]], "id", i), "name", PanelNames[i])] :
        s \in SortedSeqs(Len(CompliancePanelShapes), MaxPanels) }

\* sum(c.get('load_va', 0) for c in circuits)
RECURSIVE ComplianceLoad(_)
ComplianceLoad(cs) ==
    IF Len(cs) = 0 THEN 0
    ELSE Get(Head(cs), "load_va", 0) + ComplianceLoad(Tail(cs))

\* variant: the phase count is read under the key phase
CompliancePhases_phase(panel) == Get(panel, "phase", 1)

\* panel.get('phases', 1)
CompliancePhases(panel) == Get(panel, "phases", 1)

ComplianceViolations(circuit_count, utilization) ==
    (IF circuit_count > 42
     THEN << [rule |-> "NEC 408.36", circuit_count |-> circuit_count] >>
     ELSE << >>)
    \o
    (IF RLt(R(80), utilization)
     THEN << [rule |-> "NEC 408.30", utilization |-> Round1(utilization)] >>
     ELSE << >>)

check_panel_compliance(pnl, cir, panel_name) ==
    LET found == SelectSeq(get_all_panels(pnl),
                           LAMBDA p : Lower(Get(p, "name", "")) = Lower(panel_name))
    IN  IF Len(found) = 0 THEN [error |-> "Panel '" \o panel_name \o "' not found"]
        ELSE
          LET panel == found[1]
              cs == get_panel_circuits(cir, panel.id)
              circuit_count == Len(cs)
              total_load_va == ComplianceLoad(cs)
              bus_rating == Get(panel, "bus_rating", 200)
              voltage == Get(panel, "voltage", 240)
              phases == CompliancePhases(panel)
              capacity_va == CapacityVa(bus_rating, voltage, phases)
              utilization == UtilizationPercent(R(total_load_va), capacity_va)
              violations == ComplianceViolations(circuit_count, utilization)
          IN  [ panel_name |-> panel_name,
                circuit_count |-> circuit_count,
                utilization_percent |-> utilization,
                bus_rating |-> bus_rating,
                compliant |-> (Len(violations) = 0),
                violations |-> violations ]

InitCompliance ==
    /\ projects = << [id |-> 1, service_size |-> 200, voltage |-> 240, phases |-> 1] >>
    /\ panels \in CompliancePanelTables
    /\ circuits \in CircuitTables(Len(panels))
    /\ feeders = << >>
    /\ last = [op |-> "none"]
    /\ run = [pc |-> "idle"]
    /\ agent_actions = << >>
    /\ now = 0

CheckPanelCompliance ==
    /\ last.op = "none"
    /\ \E panel_name \in {"mdp", "MDP", "Sub A", "garage"} :
         last' = [op |-> "check_panel_compliance",
                  panel_name |-> panel_name,
                  result |-> check_panel_compliance(panels, circuits, panel_name)]
    /\ UNCHANGED <<projects, panels, circuits, feeders, agent_actions, now, run>>

NextCompliance ==
    \/ CheckPanelCompliance
    \/ GetPanelUtilization

SpecCompliance == InitCompliance /\ [][NextCompliance]_vars

(***************************************************************************)
(* The trigger endpoints of routes/agent_actions.py on a table that holds  *)
(* up to MaxActions actions queued earlier.  An endpoint runs its agent    *)
(* and queues what the agent returns; the agent either returns an output   *)
(* or raises.  Every exception raised inside the try block of an endpoint, *)
(* HTTPException included, is caught by except Exception and answered     *)
(* with HTTP 500.                                                          *)
(***************************************************************************)
\* tables of n actions queued by the RFI drafter, pending (created at hour
\* 0) or expired (created at hour -72)
RECURSIVE TablesOfLen(_)
TablesOfLen(n) ==
    IF n = 0 THEN { << >> }
    ELSE { Append(t, [ ActionRow(t, IF s = "expired" THEN 0 - 72 ELSE 0, u,
                                 "draft_rfi", "rfi_drafter", 50, Rat(4, 5))
                       EXCEPT !.status = s ]) :
             t \in TablesOfLen(n - 1), u \in Users, s \in {"pending", "expired"} }

ActionTables == UNION { TablesOfLen(n) : n \in 0..MaxActions }

ChangeImpactOutputs == { [can_accommodate |-> b] : b \in BOOLEAN }

RFIDraftOutputs == { [priority |-> p] : p \in {"Low", "Medium", "High", "Urgent"} }

PhotoAnalysisOutputs == { [severity |-> s] : s \in {"Info", "Warning", "Critical"} }

InspectionPredictionOutputs ==
    { [failure_likelihood |-> f, confidence |-> Rat(9, 10)] :
        f \in { Rat(2, 5), Rat(1, 2), Rat(7, 10), Rat(9, 10) } }

\* an agent run that raises instead of returning an output
AgentRaised == [raised |-> "Exception"]

\* priority=80 if not impact.can_accommodate else 60
ChangeImpactPriority(impact) == IF ~impact.can_accommodate THEN 80 ELSE 60

\* confidence=0.85 if impact.can_accommodate else 0.90
ChangeImpactConfidence(impact) ==
    IF impact.can_accommodate THEN Rat(85, 100) ELSE Rat(90, 100)

\* {"Urgent": 90, "High": 70, "Medium": 50, "Low": 30}.get(rfi_draft.priority, 50)
RFIPriority(rfi_draft) ==
    CASE rfi_draft.priority = "Urgent" -> 90
      [] rfi_draft.priority = "High" -> 70
      [] rfi_draft.priority = "Medium" -> 50
      [] rfi_draft.priority = "Low" -> 30
      [] OTHER -> 50

\* priority_map.get(analysis.severity, 50)
PhotoPriority(analysis) ==
    CASE analysis.severity = "Critical" -> 95
      [] analysis.severity = "Warning" -> 70
      [] analysis.severity = "Info" -> 40
      [] OTHER -> 50

PredictionPriority(prediction) ==
    IF RLt(Rat(7, 10), prediction.failure_likelihood) THEN 95
    ELSE IF RLt(Rat(2, 5), prediction.failure_likelihood) THEN 75
    ELSE 50

\* the try block of a trigger endpoint after the agent call: the agent's
\* exception propagates, otherwise the output is queued
TryQueue(output, table, utcnow, user_id, action_type, agent_name, priority, confidence, insert) ==
    IF "raised" \in DOMAIN output
    THEN [ table |-> table, raised |-> [ exception |-> output.raised ] ]
    ELSE queue_agent_action(table, utcnow, user_id, action_type, agent_name,
                            priority, confidence, insert)

\* return action, or except Exception: raise HTTPException(status_code=500)
TriggerResponse(q) ==
    IF "raised" \in DOMAIN q
    THEN [ status_code |-> 500 ]
    ELSE [ status_code |-> 200, body |-> q.returned ]

InitQueue ==
    /\ projects = << >>
    /\ panels = << >>
    /\ circuits = << >>
    /\ feeders = << >>
    /\ agent_actions \in ActionTables
    /\ now \in 0..MaxClock
    /\ last = [op |-> "none"]
    /\ run = [pc |-> "idle"]

TriggerChangeImpactAnalysis ==
    /\ last.op = "none"
    /\ \E user \in Users, impact \in ChangeImpactOutputs \cup {AgentRaised},
          insert \in InsertOutcomes :
         LET q == TryQueue(impact, agent_actions, now, user, "suggest_change",
                     "change_impact",
                     IF "raised" \in DOMAIN impact THEN 0 ELSE ChangeImpactPriority(impact),
                     IF "raised" \in DOMAIN impact THEN None ELSE ChangeImpactConfidence(impact),
                     insert)
         IN  /\ agent_actions' = q.table
             /\ last' = [ op |-> "trigger_change_impact_analysis", user |-> user,
                          response |-> TriggerResponse(q) ]
    /\ UNCHANGED <<projects, panels, circuits, feeders, now, run>>

TriggerRfiDrafter ==
    /\ last.op = "none"
    /\ \E user \in Users, rfi_draft \in RFIDraftOutputs \cup {AgentRaised},
          insert \in InsertOutcomes :
         LET q == TryQueue(rfi_draft, agent_actions, now, user, "draft_rfi",
                     "rfi_drafter",
                     IF "raised" \in DOMAIN rfi_draft THEN 0 ELSE RFIPriority(rfi_draft),
                     Rat(80, 100), insert)
         IN  /\ agent_actions' = q.table
             /\ last' = [ op |-> "trigger_rfi_drafter", user |-> user,
                          response |-> TriggerResponse(q) ]
    /\ UNCHANGED <<projects, panels, circuits, feeders, now, run>>

TriggerPhotoAnalyzer ==
    /\ last.op = "none"
    /\ \E user \in Users, analysis \in PhotoAnalysisOutputs \cup {AgentRaised},
          insert \in InsertOutcomes :
         LET q == TryQueue(analysis, agent_actions, now, user, "flag_violation",
                     "photo_analyzer",
                     IF "raised" \in DOMAIN analysis THEN 0 ELSE PhotoPriority(analysis),
                     Rat(75, 100), insert)
         IN  /\ agent_actions' = q.table
             /\ last' = [ op |-> "trigger_photo_analyzer", user |-> user,
                          response |-> TriggerResponse(q) ]
    /\ UNCHANGED <<projects, panels, circuits, feeders, now, run>>

TriggerPredictiveInspector ==
    /\ last.op = "none"
    /\ \E user \in Users, prediction \in InspectionPredictionOutputs \cup {AgentRaised},
          insert \in InsertOutcomes :
         LET q == TryQueue(prediction, agent_actions, now, user, "predict_failure",
                     "predictive_inspector",
                     IF "raised" \in DOMAIN prediction THEN 0 ELSE PredictionPriority(prediction),
                     IF "raised" \in DOMAIN prediction THEN None ELSE prediction.confidence,
                     insert)
         IN  /\ agent_actions' = q.table
             /\ last' = [ op |-> "trigger_predictive_inspector", user |-> user,
                          response |-> TriggerResponse(q) ]
    /\ UNCHANGED <<projects, panels, circuits, feeders, now, run>>

NextQueue ==
    \/ TriggerChangeImpactAnalysis
    \/ TriggerRfiDrafter
    \/ TriggerPhotoAnalyzer
    \/ TriggerPredictiveInspector

SpecQueue == InitQueue /\ [][NextQueue]_vars

(***************************************************************************)
(* approve_action and reject_action on a table of two actions, by any      *)
(* user, on the id of either action or on an id of no action, at any hour  *)
(* up to MaxClock, up to MaxReviews requests one after the other.  The     *)
(* update of the table is filtered by id and user_id only.                 *)
(***************************************************************************)
ReviewTables == TablesOfLen(2)

ActionIds == 1..3

MaxReviews == 2

UserNotes == { None, Some("ok") }

Reasons == { None, Some("no") }

\* what .update(values).eq('id', ...).eq('user_id', ...).execute() can do
UpdateOutcomes == {"done", "raises"}

\* .eq('id', action_id).eq('user_id', user['id'])
Matches_idOnly(row, action_id, user_id) == row.id = action_id

Matches(row, action_id, user_id) ==
    /\ row.id = action_id
    /\ row.user_id = user_id

\* the table after .update(values) on the matching rows
UpdateRows(table, action_id, user_id, values) ==
    [ i \in 1..Len(table) |->
        IF Matches(table[i], action_id, user_id)
        THEN values @@ table[i]
        ELSE table[i] ]

\* response.data of the update: the rows it changed
UpdatedRows(table, action_id, user_id, values) ==
    LET after == UpdateRows(table, action_id, user_id, values)
    IN  { after[i] : i \in { j \in 1..Len(table) :
                               Matches(table[j], action_id, user_id) } }

\* the two endpoints differ in the values they write and in their message:
\* the HTTPException(status_code=404) raised for an empty response.data is
\* raised inside the try block, so the handler answers it with HTTP 500
ReviewEndpoint(table, action_id, user_id, values, message, update) ==
    IF update = "raises"
    THEN [ table |-> table, response |-> [ status_code |-> 500 ] ]
    ELSE IF UpdatedRows(table, action_id, user_id, values) = {}
    THEN [ table |-> UpdateRows(table, action_id, user_id, values),
           response |-> [ status_code |-> 500 ] ]
    ELSE [ table |-> UpdateRows(table, action_id, user_id, values),
           response |-> [ status_code |-> 200,
                          body |-> [ success |-> TRUE, message |-> message ] ] ]

approve_action(table, utcnow, action_id, user_id, user_notes, update) ==
    ReviewEndpoint(table, action_id, user_id,
                   [ status |-> "approved",
                     reviewed_at |-> Some(utcnow),
                     user_notes |-> user_notes ],
                   "Agent action approved", update)

reject_action(table, utcnow, action_id, user_id, reason, update) ==
    ReviewEndpoint(table, action_id, user_id,
                   [ status |-> "rejected",
                     reviewed_at |-> Some(utcnow),
                     rejection_reason |-> reason ],
                   "Agent action rejected", update)

InitReview ==
    /\ projects = << >>
    /\ panels = << >>
    /\ circuits = << >>
    /\ feeders = << >>
    /\ agent_actions \in ReviewTables
    /\ now = 0
    /\ last = [op |-> "none"]
    /\ run = [pc |-> "idle"]

ApproveAction ==
    /\ Get(last, "request", 0) < MaxReviews
    /\ \E action_id \in ActionIds, user \in Users,
          user_notes \in UserNotes, update \in UpdateOutcomes :
         LET r == approve_action(agent_actions, now, action_id, user, user_notes, update)
         IN  /\ agent_actions' = r.table
             /\ last' = [ op |-> "approve_action", action_id |-> action_id,
                          user |-> user, response |-> r.response,
                          request |-> Get(last, "request", 0) + 1 ]
    /\ UNCHANGED <<projects, panels, circuits, feeders, now, run>>

RejectAction ==
    /\ Get(last, "request", 0) < MaxReviews
    /\ \E action_id \in ActionIds, user \in Users,
          reason \in Reasons, update \in UpdateOutcomes :
         LET r == reject_action(agent_actions, now, action_id, user, reason, update)
         IN  /\ agent_actions' = r.table
             /\ last' = [ op |-> "reject_action", action_id |-> action_id,
                          user |-> user, response |-> r.response,
                          request |-> Get(last, "request", 0) + 1 ]
    /\ UNCHANGED <<projects, panels, circuits, feeders, now, run>>

\* an hour passes
Tick ==
    /\ now < MaxClock
    /\ now' = now + 1
    /\ UNCHANGED <<projects, panels, circuits, feeders, agent_actions, last, run>>

NextReview == ApproveAction \/ RejectAction \/ Tick

SpecReview == InitReview /\ [][NextReview]_vars

(***************************************************************************)
(* Properties.  The expected values are stated from the rows of the store  *)
(* and the request, by cross-multiplication, not through the operators     *)
(* that compute the result.                                                *)
(***************************************************************************)
Ladder == {100, 125, 150, 200, 225, 320, 400, 600, 800, 1000, 1200}

CapDone ==
    /\ last.op = "check_service_capacity"
    /\ "error" \notin DOMAIN last.result

\* the service utilization the capacity check starts from
ServiceUtil == get_service_utilization(projects, panels, circuits)

\* total VA after the change: present load plus amps times voltage
ExpNewTotalVa(su, amps) ==
    RAdd(R(su.total_load_va), RMul(amps, R(su.voltage)))

\* total amps after the change, unrounded
ExpNewTotalAmps(su, amps) ==
    IF su.voltage > 0
    THEN RAdd(Rat(su.total_load_va, su.voltage), amps)
    ELSE amps

\* new_total_va / capacity_va * 100 > k, the utilization being 0 without capacity
NewUtilOver(su, new_total_va, k) ==
    /\ RLt(R(0), su.service_capacity_va)
    /\ RLt(RMul(R(k), su.service_capacity_va), RMul(R(100), new_total_va))

\* C1: check_service_capacity sets can_proceed iff the unrounded new
\* utilization is <= 80, warning iff it is in (80, 100], and
\* requires_service_upgrade iff it is > 100.
C1_Flags ==
    CapDone =>
        LET su == ServiceUtil
            ntv == ExpNewTotalVa(su, last.additional_load_amps)
            over80 == NewUtilOver(su, ntv, 80)
            over100 == NewUtilOver(su, ntv, 100)
        IN  /\ last.result.can_proceed = ~over80
            /\ last.result.warning = (over80 /\ ~over100)
            /\ last.result.requires_service_upgrade = over100

\* a change that lands on exactly 80% is admitted
C1_Witness ==
    /\ CapDone
    /\ LET su == ServiceUtil
           ntv == ExpNewTotalVa(su, last.additional_load_amps)
       IN  /\ RLt(R(0), su.service_capacity_va)
           /\ RMul(R(100), ntv) = RMul(R(80), su.service_capacity_va)
    /\ last.result.can_proceed
    /\ ~last.result.warning

RecReturned ==
    /\ CapDone
    /\ last.result.recommended_service_size # None

\* new_total_amps / 0.8
ExpRequiredService(new_total_amps) == RMul(new_total_amps, Rat(5, 4))

IsMinLadderAtLeast(size, x) ==
    /\ size \in Ladder
    /\ RLe(x, R(size))
    /\ \A s \in Ladder : RLe(x, R(s)) => size <= s

\* C2 as stated: every recommended_service_size is the least ladder size
\* >= new_total_amps / 0.8 and is >= new_total_amps.
C2_Original ==
    RecReturned =>
        LET nta == ExpNewTotalAmps(ServiceUtil, last.additional_load_amps)
            size == last.result.recommended_service_size[1]
        IN  /\ IsMinLadderAtLeast(size, ExpRequiredService(nta))
            /\ RLe(nta, R(size))

\* C2 amended: when new_total_amps / 0.8 <= 1200 the recommended size is the
\* least ladder size >= new_total_amps / 0.8 (and so >= new_total_amps);
\* otherwise it is the capped value 1200, which is >= new_total_amps only
\* while new_total_amps <= 1200.
C2_Amended ==
    RecReturned =>
        LET nta == ExpNewTotalAmps(ServiceUtil, last.additional_load_amps)
            req == ExpRequiredService(nta)
            size == last.result.recommended_service_size[1]
        IN  /\ RLe(req, R(1200)) =>
                  /\ IsMinLadderAtLeast(size, req)
                  /\ RLe(nta, R(size))
            /\ ~RLe(req, R(1200)) => size = 1200
            /\ RLe(nta, R(1200)) => RLe(nta, R(size))

\* an upgrade whose recommendation is a ladder size below the cap
C2_Witness ==
    /\ RecReturned
    /\ RLe(ExpRequiredService(ExpNewTotalAmps(ServiceUtil, last.additional_load_amps)),
           R(1200))
    /\ last.result.recommended_service_size[1] < 1200

SizeDone == last.op = "_get_recommended_service_size"

\* C3: _get_recommended_service_size always returns a ladder size, and
\* returns 1200 when no ladder size is >= required_amps / 0.8.
C3_Total ==
    SizeDone =>
        /\ last.result \in Ladder
        /\ (\A s \in Ladder : ~RLe(RMul(last.required_amps, Rat(5, 4)), R(s)))
              => last.result = 1200

\* an amperage beyond the ladder is answered with 1200
C3_Witness ==
    /\ SizeDone
    /\ RLt(R(960), last.required_amps)
    /\ last.result = 1200

\* C4: the verdict starts with REJECT iff new utilization > 100, WARNING iff
\* in (80, 100], APPROVE WITH CAUTION iff in (60, 80], plain APPROVE iff
\* <= 60; the REJECT verdict embeds |remaining_after_change_amps|, printed
\* with no decimals.
C4_Verdict ==
    CapDone =>
        LET su == ServiceUtil
            ntv == ExpNewTotalVa(su, last.additional_load_amps)
            over60 == NewUtilOver(su, ntv, 60)
            over80 == NewUtilOver(su, ntv, 80)
            over100 == NewUtilOver(su, ntv, 100)
            prefix == last.result.verdict.prefix
        IN  /\ (prefix = "REJECT") = over100
            /\ (prefix = "WARNING") = (over80 /\ ~over100)
            /\ (prefix = "APPROVE WITH CAUTION") = (over60 /\ ~over80)
            /\ (prefix = "APPROVE") = ~over60
            /\ prefix = "REJECT" =>
                  last.result.verdict.overloaded_by
                     = Fmt0(RAbs(RSub(R(su.service_size),
                                      ExpNewTotalAmps(su, last.additional_load_amps))))

\* a rejected change with a positive overage in the verdict
C4_Witness ==
    /\ CapDone
    /\ last.result.verdict.prefix = "REJECT"
    /\ last.result.verdict.overloaded_by > 0
    /\ RLt(R(ServiceUtil.service_size),
           ExpNewTotalAmps(ServiceUtil, last.additional_load_amps))

RECURSIVE SumReportedPanelLoads(_)
SumReportedPanelLoads(pnl) ==
    IF Len(pnl) = 0 THEN 0
    ELSE get_panel_utilization(panels, circuits, Head(pnl).id).current_load_va
         + SumReportedPanelLoads(Tail(pnl))

\* C5: total_load_va of get_service_utilization is the sum over the panels
\* of the current_load_va that get_panel_utilization reports (load_va, or
\* load_watts when load_va is absent).
C5_TotalIsSumOfPanelLoads ==
    (last.op = "get_service_utilization" /\ "error" \notin DOMAIN last.result) =>
        last.result.total_load_va = SumReportedPanelLoads(panels)

\* the proposed loads below a2
LoadsBelow(a2) == { b \in AddAmps : RLt(b, a2) }

\* the largest proposed load below a2 (there is one)
NextBelow(a2) ==
    CHOOSE a1 \in LoadsBelow(a2) : \A b \in LoadsBelow(a2) : RLe(b, a1)

\* C6: for a fixed store and a1 <= a2, check_service_capacity reports for a2
\* a new_utilization_percent >= and a remaining_after_change_amps <= the
\* ones it reports for a1.  Each proposed load is compared with the next
\* smaller one; the order on results being transitive, this covers every
\* pair a1 <= a2 of AddAmps.
C6_Monotonic ==
    (CapDone /\ LoadsBelow(last.additional_load_amps) # {}) =>
        LET r1 == check_service_capacity(projects, panels, circuits,
                                         NextBelow(last.additional_load_amps))
        IN  /\ RLe(r1.new_utilization_percent, last.result.new_utilization_percent)
            /\ RLe(last.result.remaining_after_change_amps,
                   r1.remaining_after_change_amps)

\* a larger proposed load that strictly raises the utilization and lowers the margin
C6_Witness ==
    /\ CapDone
    /\ last.additional_load_amps = R(48)
    /\ LET r1 == check_service_capacity(projects, panels, circuits, R(28))
       IN  /\ RLt(r1.new_utilization_percent, last.result.new_utilization_percent)
           /\ RLt(last.result.remaining_after_change_amps,
                  r1.remaining_after_change_amps)

\* C7: with additional_load_amps = 0, new_utilization_percent equals
\* current_utilization_percent (the utilization of get_service_utilization,
\* rounded to one decimal) and new_total_amps equals current_load_amps.
C7_NullChange ==
    (CapDone /\ last.additional_load_amps = R(0)) =>
        /\ last.result.new_utilization_percent = last.result.current_utilization_percent
        /\ last.result.new_utilization_percent = Round1(ServiceUtil.utilization_percent)
        /\ last.result.new_total_amps = last.result.current_load_amps

\* a null change on a loaded three-phase service
C7_Witness ==
    /\ CapDone
    /\ last.additional_load_amps = R(0)
    /\ LET su == ServiceUtil IN su.phases = 3 /\ su.total_load_va > 0
    /\ RLt(R(0), last.result.new_utilization_percent)

PanelDone ==
    /\ last.op = "get_panel_utilization"
    /\ "error" \notin DOMAIN last.result

\* current_load_va / capacity_va * 100 < k, the utilization being 0 without capacity
PanelUtilUnder(k) ==
    \/ ~RLt(R(0), last.result.capacity_va)
    \/ RLt(RMul(R(100), R(last.result.current_load_va)),
           RMul(R(k), last.result.capacity_va))

ScenarioB ==
    /\ last.op = "get_panel_utilization"
    /\ \E i \in 1..Len(panels) :
          /\ panels[i].id = last.panel_id
          /\ Get(panels[i], "bus_rating", 200) = 100
          /\ Get(panels[i], "voltage", 240) = 240
          /\ Get(panels[i], "phase", 1) = 1
    /\ SumPanelCircuitLoad(get_panel_circuits(circuits, last.panel_id)) = 18000

\* C8: get_panel_utilization reports OK iff utilization < 80, WARNING iff
\* 80 <= utilization < 100, OVERLOADED iff utilization >= 100, and
\* can_add_load iff utilization < 80; a 100A/240V single-phase panel with
\* 18000 VA reports 75A, 75%, OK, can_add_load.
C8_PanelStatus ==
    PanelDone =>
        /\ (last.result.status = "OK") = PanelUtilUnder(80)
        /\ (last.result.status = "WARNING") = (~PanelUtilUnder(80) /\ PanelUtilUnder(100))
        /\ (last.result.status = "OVERLOADED") = ~PanelUtilUnder(100)
        /\ last.result.can_add_load = PanelUtilUnder(80)
        /\ ScenarioB =>
              /\ last.result.current_load_amps = R(75)
              /\ last.result.utilization_percent = R(75)
              /\ last.result.status = "OK"
              /\ last.result.can_add_load

\* Scenario B has been computed
C8_Witness == PanelDone /\ ScenarioB /\ last.result.status = "OK"

ScenarioA ==
    /\ last.op = "check_service_capacity"
    /\ last.additional_load_amps = R(48)
    /\ Len(projects) = 1
    /\ Get(projects[1], "service_size", 200) = 200
    /\ Get(projects[1], "voltage", 240) = 240
    /\ Get(projects[1], "phases", 1) = 1
    /\ SumPanelLoads(panels, circuits) = 41280

\* C9 as stated: Scenario A reports new_total_amps 220, new utilization
\* 114.6, REJECT, requires_service_upgrade and recommended size 320.
C9_Original ==
    (CapDone /\ ScenarioA) =>
        /\ last.result.new_total_amps = R(220)
        /\ last.result.new_utilization_percent = Rat(1146, 10)
        /\ last.result.verdict.prefix = "REJECT"
        /\ last.result.requires_service_upgrade
        /\ last.result.recommended_service_size = Some(320)

\* C9 amended: Scenario A reports new_total_amps 220, new utilization 110.0
\* (220 of 200 amps), REJECT, requires_service_upgrade and recommended size 320.
C9_Amended ==
    (CapDone /\ ScenarioA) =>
        /\ last.result.new_total_amps = R(220)
        /\ last.result.new_utilization_percent = R(110)
        /\ last.result.verdict.prefix = "REJECT"
        /\ last.result.requires_service_upgrade
        /\ last.result.recommended_service_size = Some(320)

\* Scenario A has been checked, from a present utilization of 86%
C9_Witness ==
    /\ CapDone
    /\ ScenarioA
    /\ last.result.current_load_amps = R(172)
    /\ last.result.current_utilization_percent = R(86)

\* C10: without a project row get_service_utilization returns an error
\* value, and check_service_capacity returns that error with
\* can_proceed = FALSE and nothing else.
C10_MissingProject ==
    Len(projects) = 0 =>
        /\ last.op = "get_service_utilization" =>
              DOMAIN last.result = {"error"}
        /\ last.op = "check_service_capacity" =>
              /\ DOMAIN last.result = {"error", "can_proceed"}
              /\ last.result.can_proceed = FALSE
              /\ last.result.error = "Project not found"

\* a capacity check answered without a project row
C10_Witness ==
    /\ Len(projects) = 0
    /\ last.op = "check_service_capacity"
    /\ "error" \in DOMAIN last.result

(***************************************************************************)
(* calculate_voltage_drop                                                  *)
(***************************************************************************)
VdropDone == last.op = "calculate_voltage_drop"

\* the standard AWG areas, in circular mils
TabulatedArea ==
    [ sz \in {"#14", "#12", "#10", "#8", "#6", "#4", "#3", "#2", "#1",
              "#1/0", "#2/0", "#3/0", "#4/0"} |->
        CASE sz = "#14" -> 4110 [] sz = "#12" -> 6530 [] sz = "#10" -> 10380
          [] sz = "#8" -> 16510 [] sz = "#6" -> 26240 [] sz = "#4" -> 41740
          [] sz = "#3" -> 52620 [] sz = "#2" -> 66360 [] sz = "#1" -> 83690
          [] sz = "#1/0" -> 105600 [] sz = "#2/0" -> 133100
          [] sz = "#3/0" -> 167800 [] sz = "#4/0" -> 211600 ]

\* the area a designator is evaluated with
ExpArea(sz) == IF sz \in DOMAIN TabulatedArea THEN TabulatedArea[sz] ELSE 105600

\* 12.9 * load_amps * length_feet * 100 / (area * voltage), voltage # 0
ExpVdropPercent(area, length_feet, load_amps, voltage) ==
    RDiv(RMul(Rat(129 * load_amps, 10), R(100 * length_feet)),
         R(area * voltage))

\* C11: for every voltage <= 0 calculate_voltage_drop returns the zero
\* result and raises no division fault.
C11_ZeroResult ==
    (VdropDone /\ last.voltage <= 0) => last.result = [value |-> R(0)]

\* C15: an unknown conductor designator is evaluated with 105600 circular
\* mils, so the call has the outcome of the same call with "#1/0"; a
\* designator of the table is evaluated with its tabulated area.
C15_UnknownDesignator ==
    VdropDone =>
        /\ last.conductor_size \notin DOMAIN TabulatedArea =>
              /\ last.result = calculate_voltage_drop("#1/0", last.length_feet,
                                                      last.load_amps, last.voltage)
              /\ last.voltage # 0 =>
                    last.result =
                      [value |-> Round2(ExpVdropPercent(105600, last.length_feet,
                                                        last.load_amps, last.voltage))]
        /\ (last.conductor_size \in DOMAIN TabulatedArea /\ last.voltage # 0) =>
              last.result =
                [value |-> Round2(ExpVdropPercent(TabulatedArea[last.conductor_size],
                                                  last.length_feet, last.load_amps,
                                                  last.voltage))]

\* "#weird" evaluated with a load, a length and a positive voltage
C15_Witness ==
    /\ VdropDone
    /\ last.conductor_size = "#weird"
    /\ last.length_feet = 250 /\ last.load_amps = 100 /\ last.voltage = 120
    /\ last.result = [value |-> Rat(127, 50)]

\* C16: for a voltage > 0 the result is
\* ((12.9 * load_amps * length_feet) / circular_mils) / voltage * 100
\* rounded to two decimals (the function takes no conductor material); for
\* "#6", 100 ft, 40 A, 240 V it is 0.82.
ScenarioD ==
    /\ last.conductor_size = "#6"
    /\ last.length_feet = 100 /\ last.load_amps = 40 /\ last.voltage = 240

C16_VdropFormula ==
    (VdropDone /\ last.voltage > 0) =>
        /\ DOMAIN last.result = {"value"}
        /\ last.result.value =
              Round2(ExpVdropPercent(ExpArea(last.conductor_size),
                                     last.length_feet, last.load_amps, last.voltage))
        /\ ScenarioD => last.result.value = Rat(82, 100)

C16_Witness == VdropDone /\ ScenarioD /\ last.result = [value |-> Rat(41, 50)]

(***************************************************************************)
(* Voltages and capacities that are not positive                           *)
(***************************************************************************)
UtilDone ==
    /\ last.op = "get_service_utilization"
    /\ "error" \notin DOMAIN last.result

\* voltage and rating * voltage of the project row, with the defaults
ProjectVoltage == Get(projects[1], "voltage", 240)

ProjectRatingVolts == Get(projects[1], "service_size", 200) * ProjectVoltage

\* voltage and rating * voltage of the panel row the call was made for
PanelVoltage == Get(panels[last.panel_id], "voltage", 240)

PanelRatingVolts == Get(panels[last.panel_id], "bus_rating", 200) * PanelVoltage

\* C12: a voltage <= 0 or a capacity <= 0 gives a normal result, without
\* an error, in which the load in amps, respectively the utilization, is 0.
C12_NoDivisionFault ==
    /\ (last.op = "get_service_utilization" /\ Len(projects) = 1) =>
          /\ "error" \notin DOMAIN last.result
          /\ ProjectRatingVolts <= 0 => last.result.utilization_percent = R(0)
    /\ last.op = "get_panel_utilization" =>
          /\ "error" \notin DOMAIN last.result
          /\ PanelVoltage <= 0 => last.result.current_load_amps = R(0)
          /\ PanelRatingVolts <= 0 =>
                /\ last.result.utilization_percent = R(0)
                /\ last.result.status = "OK"
    /\ (last.op = "check_service_capacity" /\ Len(projects) = 1) =>
          /\ "error" \notin DOMAIN last.result
          /\ ProjectVoltage <= 0 =>
                /\ last.result.current_load_amps = R(0)
                /\ last.result.new_total_amps = Round1(last.additional_load_amps)
          /\ ProjectRatingVolts <= 0 =>
                /\ last.result.new_utilization_percent = R(0)
                /\ last.result.current_utilization_percent = R(0)
                /\ last.result.can_proceed

\* a loaded three-phase service at -208 V asked for 48 more amps
C12_Witness ==
    /\ CapDone
    /\ ProjectVoltage < 0
    /\ SumPanelLoads(panels, circuits) > 0
    /\ last.additional_load_amps = R(48)
    /\ last.result.current_load_amps = R(0)
    /\ last.result.new_utilization_percent = R(0)

\* the keys of a result of get_panel_utilization
PanelResultKeys ==
    { "panel_id", "panel_name", "bus_rating_amps", "voltage", "phases",
      "capacity_va", "current_load_va", "current_load_amps", "available_amps",
      "utilization_percent", "total_spaces", "spaces_used", "spaces_available",
      "circuit_count", "can_add_load", "status" }

\* C13: for a panel whose voltage is <= 0, get_panel_utilization reports
\* current_load_amps = 0 and marks the record as incomplete in its result:
\* by a field beyond the regular ones or by a status of its own.
C13_IncompleteFlag ==
    (last.op = "get_panel_utilization" /\ PanelVoltage <= 0) =>
        /\ "error" \notin DOMAIN last.result
        /\ last.result.current_load_amps = R(0)
        /\ \/ DOMAIN last.result \ PanelResultKeys # {}
           \/ last.result.status \notin {"OK", "WARNING", "OVERLOADED"}

(***************************************************************************)
(* check_voltage_drop_compliance                                           *)
(***************************************************************************)
ComplianceDone == last.op = "check_voltage_drop_compliance"

\* the recorded drop of a feeder row, as numerator and denominator
RecordedDrop(f) ==
    IF "voltage_drop_percent" \in DOMAIN f THEN f.voltage_drop_percent ELSE <<0, 1>>

\* the positions of the feeders whose recorded drop is beyond 3
Reported == { i \in 1..Len(feeders) :
                RecordedDrop(feeders[i])[1] > 3 * RecordedDrop(feeders[i])[2] }

\* the position in the result of the reported feeder at position i
RankOf(i) == Cardinality({ j \in Reported : j <= i })

\* C14: exactly the feeders whose recorded drop is strictly greater than 3
\* are reported, in the order of the table; each violation carries the
\* feeder name, the recorded drop, the limit 3.0 and the code-reference
\* tag, with severity High iff the drop is strictly greater than 5 and
\* Medium otherwise.
C14_FeederViolations ==
    ComplianceDone =>
        /\ Len(last.result) = Cardinality(Reported)
        /\ \A i \in Reported :
              LET v == last.result[RankOf(i)]
                  d == RecordedDrop(feeders[i])
              IN  /\ DOMAIN v = {"feeder", "voltage_drop", "limit", "article", "severity"}
                  /\ v.feeder = (IF "name" \in DOMAIN feeders[i]
                                  THEN feeders[i].name ELSE "Unknown")
                  /\ v.voltage_drop = d
                  /\ v.limit = <<3, 1>>
                  /\ v.article = "NEC 210.19(A) / 215.2(A)(1)"
                  /\ v.severity = (IF d[1] > 5 * d[2] THEN "High" ELSE "Medium")

\* a feeder at exactly 3.0 followed by one at 4.2: only the second is
\* reported, as Medium
C14_Witness ==
    /\ ComplianceDone
    /\ feeders = << [name |-> "F1", voltage_drop_percent |-> <<3, 1>>],
                    [name |-> "F3", voltage_drop_percent |-> <<21, 5>>] >>
    /\ Len(last.result) = 1
    /\ last.result[1].feeder = "F3"
    /\ last.result[1].voltage_drop = Rat(21, 5)
    /\ last.result[1].severity = "Medium"

(***************************************************************************)
(* The change-impact request                                               *)
(***************************************************************************)
\* the agent's context holds a capacity check
ContextChecked ==
    /\ run.pc \in {"prompted", "agent_done", "returned", "raised", "queued", "failed"}
    /\ "capacity_check" \in DOMAIN run.context

\* C17: the capacity check behind the final safety decision and the
\* capacity check and service utilization put into the agent's context
\* are one and the same result, whatever is written to the store while
\* the request runs.
C17_SingleSnapshot ==
    ContextChecked =>
        /\ run.context.capacity_check = run.capacity_pre_check
        /\ run.context.capacity_check.current_utilization_percent =
              Round1(run.context.service_util.utilization_percent)

\* the safety check has been passed and the pre-check required an upgrade
RejectedByPreCheck ==
    /\ run.pc \in {"returned", "raised", "queued", "failed"}
    /\ "requires_service_upgrade" \in DOMAIN run.capacity_pre_check
    /\ run.capacity_pre_check.requires_service_upgrade

\* C20: when the pre-check requires a service upgrade, the analysis handed
\* back to the caller is a rejecting one: an output of the language model
\* that accommodates the change is turned into a rejection, and nothing
\* accommodating is returned or queued.
C20_OverrideToRejected ==
    RejectedByPreCheck =>
        /\ run.pc \in {"returned", "queued"}
        /\ run.impact.can_accommodate = FALSE
        /\ run.pc = "queued" => run.queued.action_data.can_accommodate = FALSE

(***************************************************************************)
(* The recommended size and the upgrade flag                               *)
(***************************************************************************)
\* C18: check_service_capacity returns a recommended_service_size other
\* than None iff requires_service_upgrade is true, that is iff the
\* unrounded new utilization is above 100; an admitted result and a
\* warning carry None.
C18_RecommendedIffUpgrade ==
    CapDone =>
        LET su == ServiceUtil
            over100 == NewUtilOver(su, ExpNewTotalVa(su, last.additional_load_amps), 100)
        IN  /\ (last.result.recommended_service_size # None) <=>
                  last.result.requires_service_upgrade
            /\ last.result.requires_service_upgrade <=> over100
            /\ last.result.recommended_service_size # None =>
                  /\ Len(last.result.recommended_service_size) = 1
                  /\ last.result.recommended_service_size[1] \in Ladder
            /\ (last.result.can_proceed \/ last.result.warning) =>
                  last.result.recommended_service_size = None

\* a warning (exactly 100%) without a size, on a store that is not empty
C18_Witness ==
    /\ CapDone
    /\ last.result.warning
    /\ last.result.new_utilization_percent = R(100)
    /\ last.result.recommended_service_size = None
    /\ Len(circuits) > 0

(***************************************************************************)
(* Thresholds and rounding                                                 *)
(***************************************************************************)
\* C19: the panel status and can_add_load, and the capacity flags and the
\* category of the verdict, are those of the unrounded utilization, also
\* where the percentage returned with one decimal is on the other side of
\* the threshold (80.0 returned for 79.96 or 80.04, 100.0 for 99.96 or
\* 100.04).
C19_UnroundedThresholds ==
    /\ PanelDone =>
          /\ last.result.can_add_load <=> PanelUtilUnder(80)
          /\ last.result.status =
                (IF PanelUtilUnder(80) THEN "OK"
                 ELSE IF PanelUtilUnder(100) THEN "WARNING" ELSE "OVERLOADED")
    /\ CapDone =>
          LET su == ServiceUtil
              ntv == ExpNewTotalVa(su, last.additional_load_amps)
              over80 == NewUtilOver(su, ntv, 80)
              over100 == NewUtilOver(su, ntv, 100)
          IN  /\ last.result.can_proceed <=> ~over80
              /\ last.result.warning <=> (over80 /\ ~over100)
              /\ last.result.requires_service_upgrade <=> over100
              /\ (last.result.verdict.prefix = "REJECT") <=> over100
              /\ (last.result.verdict.prefix = "WARNING") <=> (over80 /\ ~over100)
              /\ (last.result.verdict.prefix \in {"APPROVE", "APPROVE WITH CAUTION"})
                    <=> ~over80

\* a panel at 19190 VA of 24000 VA: 80.0 is returned, the status is OK
C19_Witness ==
    /\ PanelDone
    /\ last.result.current_load_va = 19190
    /\ last.result.utilization_percent = R(80)
    /\ last.result.status = "OK"
    /\ last.result.can_add_load

(***************************************************************************)
(* Flags, verdict, margin and recommended size of check_service_capacity   *)
(***************************************************************************)
\* the number of the flags can_proceed, warning, requires_service_upgrade
\* that are true in a result
FlagsSet(r) ==
    (IF r.can_proceed THEN 1 ELSE 0) + (IF r.warning THEN 1 ELSE 0)
      + (IF r.requires_service_upgrade THEN 1 ELSE 0)

\* C24: in every result that is not an error exactly one of can_proceed,
\* warning and requires_service_upgrade is true, and the verdict starts
\* with REJECT iff requires_service_upgrade, with WARNING iff warning and
\* with APPROVE iff can_proceed.
C24_OneFlagAndVerdict ==
    CapDone =>
        /\ FlagsSet(last.result) = 1
        /\ StartsWith(last.result.verdict, "REJECT") <=>
              last.result.requires_service_upgrade
        /\ StartsWith(last.result.verdict, "WARNING") <=> last.result.warning
        /\ StartsWith(last.result.verdict, "APPROVE") <=> last.result.can_proceed

\* a result at exactly 100%: a warning and nothing else
C24_Witness ==
    /\ CapDone
    /\ last.result.new_utilization_percent = R(100)
    /\ last.result.warning
    /\ ~last.result.can_proceed /\ ~last.result.requires_service_upgrade
    /\ last.result.verdict.prefix = "WARNING"
    /\ last.additional_load_amps = R(40)

\* C25: whenever can_proceed is true the reported
\* remaining_after_change_amps is not negative, for single-phase and
\* three-phase services and every service size and voltage.
C25_AdmittedWithinService ==
    (CapDone /\ last.result.can_proceed) =>
        RLe(R(0), last.result.remaining_after_change_amps)

\* a capacity check that recommends a size
SizeRecommended ==
    /\ CapDone
    /\ last.result.recommended_service_size # None

\* C26 as stated: a recommended size is strictly greater than the current
\* service size, for every service size of the ladder.
C26_Original ==
    SizeRecommended =>
        last.result.recommended_service_size[1] > last.result.service_size_amps

\* C26: a recommended size is strictly greater than the current service
\* size when that size is below 1200; for a 1200 A service the recommended
\* size is 1200 again.
C26_Amended ==
    SizeRecommended =>
        LET size == Get(projects[1], "service_size", 200)
            rec == last.result.recommended_service_size[1]
        IN  /\ last.result.service_size_amps = size
            /\ size < 1200 => rec > size
            /\ size >= 1200 => rec = 1200

\* a 200 A service at 243 A after the change: the next size, 320, is
\* recommended
C26_Witness ==
    /\ SizeRecommended
    /\ last.result.service_size_amps = 200
    /\ SumPanelLoads(panels, circuits) = 20000
    /\ last.additional_load_amps = R(160)
    /\ last.result.recommended_service_size = <<320>>

(***************************************************************************)
(* check_panel_compliance against get_panel_utilization                    *)
(***************************************************************************)
PanelComplianceDone ==
    /\ last.op = "check_panel_compliance"
    /\ "error" \notin DOMAIN last.result

\* what get_panel_utilization returns for the panel of that name
UtilizationOfNamed ==
    LET p == CHOOSE q \in { panels[i] : i \in 1..Len(panels) } :
                 Lower(q.name) = Lower(last.panel_name)
    IN  get_panel_utilization(panels, circuits, p.id)

\* C27: for the same panel and circuits check_panel_compliance computes
\* the utilization that get_panel_utilization computes before rounding,
\* and reports the 80% violation exactly when that utilization is above 80.
C27_SameUtilization ==
    PanelComplianceDone =>
        LET pu == UtilizationOfNamed
            unrounded == IF RLt(R(0), pu.capacity_va)
                         THEN RDiv(RMul(R(100), R(pu.current_load_va)), pu.capacity_va)
                         ELSE R(0)
        IN  /\ last.result.utilization_percent = unrounded
            /\ (\E i \in 1..Len(last.result.violations) :
                   last.result.violations[i].rule = "NEC 408.30")
                <=> RLt(R(80), unrounded)

(***************************************************************************)
(* The agent_actions routes                                                *)
(***************************************************************************)
ReviewOps == {"approve_action", "reject_action"}

TriggerOps == { "trigger_change_impact_analysis", "trigger_rfi_drafter",
                "trigger_photo_analyzer", "trigger_predictive_inspector" }

\* the latest call was a review of an id that no action of the caller has
ReviewedUnknown ==
    /\ last.op \in ReviewOps
    /\ ~ \E i \in 1..Len(agent_actions) :
           /\ agent_actions[i].id = last.action_id
           /\ agent_actions[i].user_id = last.user

\* C21: approve_action and reject_action on an action id that does not
\* exist, or that belongs to a different user, respond with HTTP 404.
C21_NotFound404 ==
    ReviewedUnknown => last.response.status_code = 404

\* C22: a trigger endpoint that answers successfully has appended exactly
\* one row to agent_actions, owned by the calling user, with status pending
\* and expires_at 72 hours after its creation, and answers with that row;
\* a trigger endpoint that answers with an error has left the table as it
\* was.
C22_OneRowQueued ==
    [][ last'.op \in TriggerOps =>
          IF last'.response.status_code = 200
          THEN LET n == Len(agent_actions)
                   row == agent_actions'[n + 1]
               IN  /\ Len(agent_actions') = n + 1
                   /\ SubSeq(agent_actions', 1, n) = agent_actions
                   /\ row.user_id = last'.user
                   /\ row.status = "pending"
                   /\ row.created_at = now
                   /\ row.expires_at = << row.created_at + 72 >>
                   /\ row.id \notin { agent_actions[i].id : i \in 1..n }
                   /\ last'.response.body = row
          ELSE /\ last'.response.status_code >= 400
               /\ agent_actions' = agent_actions ]_vars

\* the predictive inspector has queued an action for u2 at hour 1 next to
\* an action of u1
C22_Witness ==
    /\ last.op = "trigger_predictive_inspector"
    /\ last.user = "u2"
    /\ last.response.status_code = 200
    /\ now = 1
    /\ Len(agent_actions) = 2
    /\ agent_actions[1].user_id = "u1"
    /\ agent_actions[2].user_id = "u2"
    /\ agent_actions[2].agent_name = "predictive_inspector"
    /\ agent_actions[2].priority = 75
    /\ agent_actions[2].status = "pending"
    /\ agent_actions[2].expires_at = << 73 >>

\* C23: a step of approve_action or reject_action by user U on an id leaves
\* every action unchanged except the one with that id and user_id U, and
\* nothing else changes an action.
C23_OnlyMatchingRow ==
    [][ /\ Len(agent_actions') = Len(agent_actions)
        /\ \A i \in 1..Len(agent_actions) :
             agent_actions'[i] # agent_actions[i] =>
                 /\ last'.op \in ReviewOps
                 /\ agent_actions[i].id = last'.action_id
                 /\ agent_actions[i].user_id = last'.user ]_vars

\* u1 has approved its action 1 at hour 1 with a note; action 2, of u2, is
\* still pending and unreviewed
C23_Witness ==
    /\ last.op = "approve_action"
    /\ last.action_id = 1
    /\ last.user = "u1"
    /\ last.response.status_code = 200
    /\ agent_actions[1].user_id = "u1"
    /\ agent_actions[1].status = "approved"
    /\ agent_actions[1].reviewed_at = << 1 >>
    /\ agent_actions[1].user_notes = Some("ok")
    /\ agent_actions[2].user_id = "u2"
    /\ agent_actions[2].status = "pending"
    /\ agent_actions[2].reviewed_at = None
    /\ agent_actions[2].user_notes = None
    /\ agent_actions[2].rejection_reason = None

\* C28: the status of an action changes only from pending, and its
\* reviewed_at only from None.
C28_OnlyFromPending ==
    [][ \A i \in 1..Len(agent_actions) :
          /\ agent_actions'[i].status # agent_actions[i].status =>
                 agent_actions[i].status = "pending"
          /\ agent_actions'[i].reviewed_at # agent_actions[i].reviewed_at =>
                 agent_actions[i].reviewed_at = None ]_vars

====
